---- MODULE Spec2Model ----
(***************************************************************************)
(* Model of libcloud/compute/drivers/rackspace.py: the Rackspace response  *)
(* codec (RackspaceResponse, OpenStackResponse), the connection's request  *)
(* preparation, the entity mappers of RackspaceNodeDriver and its          *)
(* operations on a Node.                                                   *)
(*                                                                         *)
(* A response body is a sequence of XML tokens (start tag, text, end tag); *)
(* ET.XML is modelled as the parser that builds the element tree from it   *)
(* or fails.  Python's None is the value None below.                       *)
(***************************************************************************)
EXTENDS Integers, Sequences, FiniteSets, TLC

VARIABLES node,      \* the Node object the caller holds and passes to operations
          node0,     \* history: that Node as it was when the driver created it
          lastPw,    \* history: password of the latest set-password answered 204
          op,        \* the operation that ran last
          args,      \* the arguments it was called with
          req,       \* the request it handed to the transport
          resp,      \* the response the transport gave back
          result,    \* what it returned or raised
          conn       \* the driver's connection: variant, server_url, host, request_path

vars == <<node, node0, lastPw, op, args, req, resp, result, conn>>

----------------------------------------------------------------------------
(* Bounds of the model *)

MaxImages == 3       \* image elements in an image list response
MaxLimits == 3       \* limit elements in the absolute section of a limits response

----------------------------------------------------------------------------
(* Values *)

None == "~None~"
NAMESPACE == "http://docs.rackspacecloud.com/servers/api/v1.0"
OtherNs == "urn:other"

NoAttrs == [a \in {} |-> None]

\* el.get(name): the attribute's value, None when the element has none
Get(el, name) == IF name \in DOMAIN el.attrs THEN el.attrs[name] ELSE None

Elem(ns, tag, attrs, text, children) ==
    [ns |-> ns, tag |-> tag, attrs |-> attrs, text |-> text, children |-> children]

Open(ns, tag, attrs) == [t |-> "open", ns |-> ns, tag |-> tag, attrs |-> attrs]
Text(s) == [t |-> "text", s |-> s]
Close(ns, tag) == [t |-> "close", ns |-> ns, tag |-> tag]

RECURSIVE Flatten(_)
Flatten(ss) == IF ss = <<>> THEN <<>> ELSE Head(ss) \o Flatten(Tail(ss))

\* The wire form of an element tree, as ET.tostring and the provider write
\* it: an element whose text is empty is written like one without text
RECURSIVE Serialise(_)
Serialise(el) ==
    <<Open(el.ns, el.tag, el.attrs)>>
    \o (IF el.text = None \/ el.text = "" THEN <<>> ELSE <<Text(el.text)>>)
    \o Flatten([i \in 1..Len(el.children) |-> Serialise(el.children[i])])
    \o <<Close(el.ns, el.tag)>>

ParseFail == [ok |-> FALSE]

\* ET.XML(body): one root element, tags properly nested, nothing but the
\* root at top level; element text is the text right after its start tag.
RECURSIVE ParseFrom(_, _, _)
ParseFrom(toks, i, stack) ==
    IF i > Len(toks) THEN ParseFail
    ELSE LET tk == toks[i]
             n == Len(stack)
         IN  CASE tk.t = "open" ->
                    ParseFrom(toks, i + 1,
                              Append(stack, Elem(tk.ns, tk.tag, tk.attrs, None, <<>>)))
               [] tk.t = "text" ->
                    IF n = 0 THEN ParseFail
                    ELSE IF stack[n].children = <<>> /\ stack[n].text = None
                         THEN ParseFrom(toks, i + 1, [stack EXCEPT ![n].text = tk.s])
                         ELSE ParseFrom(toks, i + 1, stack)
               [] tk.t = "close" ->
                    IF n = 0 THEN ParseFail
                    ELSE IF stack[n].tag # tk.tag \/ stack[n].ns # tk.ns THEN ParseFail
                    ELSE IF n = 1
                         THEN IF i = Len(toks)
                              THEN [ok |-> TRUE, root |-> stack[1]]
                              ELSE ParseFail
                         ELSE ParseFrom(toks, i + 1,
                                  [SubSeq(stack, 1, n - 1) EXCEPT
                                      ![n - 1].children = Append(@, stack[n])])

ET_XML(body) == ParseFrom(body, 1, <<>>)

\* body.getiterator(): the element and its descendants in document order
RECURSIVE GetIterator(_)
GetIterator(el) ==
    <<el>> \o Flatten([i \in 1..Len(el.children) |-> GetIterator(el.children[i])])

\* _fixxpath: every path segment gets the namespace
_fixxpath(xpath) == [i \in 1..Len(xpath) |-> [ns |-> NAMESPACE, tag |-> xpath[i]]]

RECURSIVE FindPath(_, _)
FindPath(els, qpath) ==
    IF qpath = <<>> THEN els
    ELSE LET kids == Flatten([i \in 1..Len(els) |->
                        SelectSeq(els[i].children,
                                  LAMBDA c : c.ns = Head(qpath).ns /\ c.tag = Head(qpath).tag)])
         IN  FindPath(kids, Tail(qpath))

\* _findall(element, xpath)
_findall(element, xpath) == FindPath(<<element>>, _fixxpath(xpath))

----------------------------------------------------------------------------
(* Outcomes of a call: what it returns, or the exception it raises *)

RetNone == [kind |-> "None"]
RetBool(b) == [kind |-> "bool", val |-> b]
RetElem(e) == [kind |-> "element", el |-> e]
RetRaw(b) == [kind |-> "raw", body |-> b]
RetMessage(status, error, text) ==
    [kind |-> "message", status |-> status, error |-> error, text |-> text]
RetNode(n) == [kind |-> "Node", node |-> n]
RetImage(i) == [kind |-> "NodeImage", image |-> i]
RetImages(is) == [kind |-> "images", images |-> is]
RetLimits(rate, absolute) == [kind |-> "limits", rate |-> rate, absolute |-> absolute]
Raise(exc) == [kind |-> "raise", exc |-> exc]
RaiseMalformed(body) ==
    [kind |-> "raise", exc |-> "MalformedResponseError", value |-> "Failed to parse XML",
     body |-> body, driver |-> "RackspaceNodeDriver"]
RaiseProviderError(message) ==
    [kind |-> "raise", exc |-> "Exception", message |-> message]

----------------------------------------------------------------------------
(* RackspaceResponse and OpenStackResponse *)

\* str.lower() on the strings of the model that hold upper-case letters
LowerTable ==
    ("Content-Type" :> "content-type") @@ ("CONTENT-TYPE" :> "content-type")
    @@ ("Application/XML" :> "application/xml") @@ ("Text/Plain" :> "text/plain")

Lower(s) == IF s \in DOMAIN LowerTable THEN LowerTable[s] ELSE s

\* A header value is the sequence of its parts ("application/xml", "; charset=UTF-8")
LowerValue(v) == [i \in 1..Len(v) |-> Lower(v[i])]

\* str.find(sub) > -1, for a sub that is one part
Find(v, sub) == \E i \in 1..Len(v) : v[i] = sub

success(r) == r.status >= 200 /\ r.status <= 299

\* RackspaceResponse.parse_body
parse_body(r) ==
    IF r.body = <<>> THEN RetNone
    ELSE LET body == ET_XML(r.body)
         IN  IF body.ok THEN RetElem(body.root) ELSE RaiseMalformed(r.body)

\* The join of the texts of the elements that have one
JoinTexts(els) ==
    LET withText == SelectSeq(els, LAMBDA e : e.text # None /\ e.text # "")
    IN  [i \in 1..Len(withText) |-> withText[i].text]

\* RackspaceResponse.parse_error
parse_error(r) ==
    LET body == ET_XML(r.body)
    IN  IF ~body.ok THEN RaiseMalformed(r.body)
        ELSE RetMessage(r.status, r.error,
                        [kind |-> "joined", parts |-> JoinTexts(GetIterator(body.root))])

\* OpenStackResponse.has_content_type
has_content_type(r, content_type) ==
    LET content_type_header == {key \in DOMAIN r.headers : Lower(key) = "content-type"}
    IN  IF content_type_header = {} THEN RetBool(FALSE)
        ELSE IF "content-type" \notin content_type_header THEN Raise("KeyError")
        ELSE RetBool(Find(LowerValue(r.headers["content-type"]), Lower(content_type)))

\* OpenStackResponse.parse_body
OpenStack_parse_body(r) ==
    LET has == has_content_type(r, "application/xml")
    IN  IF has.kind = "raise" THEN has
        ELSE IF ~has.val \/ r.body = <<>> THEN RetRaw(r.body)
        ELSE LET body == ET_XML(r.body)
             IN  IF body.ok THEN RetElem(body.root) ELSE RaiseMalformed(r.body)

\* responseCls of the connection class in use
responseCls_parse_body(variant, r) ==
    IF variant = "openstack" THEN OpenStack_parse_body(r) ELSE parse_body(r)

\* Response.object: the decoded body of a response; a response that is not a
\* success raises the provider error built by parse_error instead
ResponseObject(variant, r) ==
    IF ~success(r)
    THEN LET e == parse_error(r)
         IN  IF e.kind = "raise" THEN e ELSE RaiseProviderError(e)
    ELSE responseCls_parse_body(variant, r)

----------------------------------------------------------------------------
(* RackspaceConnection *)

NoParams == [k \in {} |-> None]
NoHeaders == [k \in {} |-> <<>>]

\* request without the nonce: the parameters go out as the caller gave them
request_nononce(c, action, params, data, headers, method, nonce) ==
    LET act == IF c.server_url # "" THEN <<c.server_url>> \o action ELSE action
        hdrs == IF method \in {"POST", "PUT"}
                THEN ("Content-Type" :> <<"application/xml", "; charset=UTF-8">>)
                ELSE headers
    IN  [action |-> act, params |-> params, data |-> data, method |-> method,
         headers |-> hdrs]

\* RackspaceConnection.request: the request handed to the transport
request(c, action, params, data, headers, method, nonce) ==
    LET act == IF c.server_url # "" THEN <<c.server_url>> \o action ELSE action
        hdrs == IF method \in {"POST", "PUT"}
                THEN ("Content-Type" :> <<"application/xml", "; charset=UTF-8">>)
                ELSE headers
        prms == IF method = "GET"
                THEN [k \in DOMAIN params \cup {"cache-busting"} |->
                         IF k = "cache-busting" THEN nonce ELSE params[k]]
                ELSE params
    IN  [action |-> act, params |-> prms, data |-> data, method |-> method,
         headers |-> hdrs]

----------------------------------------------------------------------------
(* RackspaceNodeDriver: the entity mappers *)

NODE_STATE_MAP ==
    ("BUILD" :> "PENDING") @@ ("REBUILD" :> "PENDING") @@ ("ACTIVE" :> "RUNNING")
    @@ ("SUSPENDED" :> "TERMINATED") @@ ("QUEUE_RESIZE" :> "PENDING")
    @@ ("PREP_RESIZE" :> "PENDING") @@ ("VERIFY_RESIZE" :> "RUNNING")
    @@ ("PASSWORD" :> "PENDING") @@ ("RESCUE" :> "PENDING")
    @@ ("REBOOT" :> "REBOOTING") @@ ("HARD_REBOOT" :> "REBOOTING")
    @@ ("SHARE_IP" :> "PENDING") @@ ("SHARE_IP_NO_CONFIG" :> "PENDING")
    @@ ("DELETE_IP" :> "PENDING") @@ ("UNKNOWN" :> "UNKNOWN")

\* a lookup that forgets the default
NodeStateOf_nodefault(status) ==
    IF status \in DOMAIN NODE_STATE_MAP THEN NODE_STATE_MAP[status] ELSE None

\* NODE_STATE_MAP.get(status, NodeState.UNKNOWN)
NodeStateOf(status) ==
    IF status \in DOMAIN NODE_STATE_MAP THEN NODE_STATE_MAP[status] ELSE "UNKNOWN"

\* d[k] = v on a dict
DictSet(d, k, v) == [x \in DOMAIN d \cup {k} |-> IF x = k THEN v ELSE d[x]]

EmptyDict == [k \in {} |-> None]

get_ips(els) == [i \in 1..Len(els) |-> Get(els[i], "addr")]

RECURSIVE get_meta_dict_from(_, _)
get_meta_dict_from(d, els) ==
    IF els = <<>> THEN d
    ELSE get_meta_dict_from(DictSet(d, Get(Head(els), "key"), Head(els).text), Tail(els))

get_meta_dict(els) == get_meta_dict_from(EmptyDict, els)

\* _to_node: the Node of a server element
_to_node(c, el) ==
    [id |-> Get(el, "id"),
     name |-> Get(el, "name"),
     state |-> NodeStateOf(Get(el, "status")),
     public_ip |-> get_ips(_findall(el, <<"addresses", "public", "ip">>)),
     private_ip |-> get_ips(_findall(el, <<"addresses", "private", "ip">>)),
     extra |-> [password |-> Get(el, "adminPass"),
                hostId |-> Get(el, "hostId"),
                imageId |-> Get(el, "imageId"),
                flavorId |-> Get(el, "flavorId"),
                uri |-> <<"https://", c.host, c.request_path, "/servers/", Get(el, "id")>>,
                metadata |-> get_meta_dict(_findall(el, <<"metadata", "meta">>))]]

\* an image mapper that reads the status from the wrong attribute
_to_image_wrongattr(el) ==
    [id |-> Get(el, "id"),
     name |-> Get(el, "name"),
     extra |-> [updated |-> Get(el, "updated"),
                created |-> Get(el, "created"),
                status |-> Get(el, "progress"),
                serverId |-> Get(el, "serverId"),
                progress |-> Get(el, "progress")]]

\* _to_image: the NodeImage of an image element
_to_image(el) ==
    [id |-> Get(el, "id"),
     name |-> Get(el, "name"),
     extra |-> [updated |-> Get(el, "updated"),
                created |-> Get(el, "created"),
                status |-> Get(el, "status"),
                serverId |-> Get(el, "serverId"),
                progress |-> Get(el, "progress")]]

\* a filter that drops the images being saved instead of keeping the active
ImageIsListed_notsaving(el) == Get(el, "status") # "SAVING"

\* the filter of _to_images
ImageIsListed(el) == Get(el, "status") = "ACTIVE"

\* _to_images: the images of an images element
_to_images(object) ==
    LET elements == _findall(object, <<"image">>)
        kept == SelectSeq(elements, ImageIsListed)
    IN  [i \in 1..Len(kept) |-> _to_image(kept[i])]

\* _to_rate: the attributes of a rate limit element, as a dict
_to_rate(el) == el.attrs

\* a merge in which the first element of a name wins
RECURSIVE AbsoluteFrom_firstwins(_, _)
AbsoluteFrom_firstwins(absolute, items) ==
    IF items = <<>> THEN absolute
    ELSE AbsoluteFrom_firstwins(
             IF Get(Head(items), "name") \in DOMAIN absolute THEN absolute
             ELSE DictSet(absolute, Get(Head(items), "name"), Get(Head(items), "value")),
             Tail(items))

\* _to_absolute and absolute.update(...) of ex_limits, one element at a time
RECURSIVE AbsoluteFrom(_, _)
AbsoluteFrom(absolute, items) ==
    IF items = <<>> THEN absolute
    ELSE AbsoluteFrom(DictSet(absolute, Get(Head(items), "name"), Get(Head(items), "value")),
                      Tail(items))

\* What mapping resp.object comes to when it is no element: a raised error
\* passes through, and None or a raw body has no findall and no get
Unmappable(object) ==
    IF object.kind = "raise" THEN object ELSE Raise("AttributeError")

----------------------------------------------------------------------------
(* RackspaceNodeDriver: the operations.  Each takes the response r that the *)
(* transport gives to its one request.                                      *)

Called(name, a, q, r, res) ==
    /\ op' = name
    /\ args' = a
    /\ req' = q
    /\ resp' = r
    /\ result' = res

\* ET.tostring(ET.Element(tag, attributes))
ET_tostring(tag, attributes) == Serialise(Elem("", tag, attributes, None, <<>>))

\* a modify that stores the password without looking at the status
_change_password_or_name_anystatus(n, name, password, r) ==
    LET nm == IF name = None \/ name = "" THEN n.name ELSE name
        body == IF password # None
                THEN ("xmlns" :> NAMESPACE) @@ ("name" :> nm) @@ ("adminPass" :> password)
                ELSE ("xmlns" :> NAMESPACE) @@ ("name" :> nm)
    IN  [req |-> request(conn, <<"/servers/", n.id>>, NoParams,
                         ET_tostring("server", body), NoHeaders, "PUT", None),
         node |-> IF password # None
                  THEN [n EXCEPT !.extra.password = password]
                  ELSE n,
         result |-> RetBool(r.status = 204)]

\* a modify that also stores the new name in the Node
_change_password_or_name_rename(n, name, password, r) ==
    LET nm == IF name = None \/ name = "" THEN n.name ELSE name
        body == IF password # None
                THEN ("xmlns" :> NAMESPACE) @@ ("name" :> nm) @@ ("adminPass" :> password)
                ELSE ("xmlns" :> NAMESPACE) @@ ("name" :> nm)
        renamed == IF r.status = 204 THEN [n EXCEPT !.name = nm] ELSE n
    IN  [req |-> request(conn, <<"/servers/", n.id>>, NoParams,
                         ET_tostring("server", body), NoHeaders, "PUT", None),
         node |-> IF r.status = 204 /\ password # None
                  THEN [renamed EXCEPT !.extra.password = password]
                  ELSE renamed,
         result |-> RetBool(r.status = 204)]

\* _change_password_or_name: the request, the Node afterwards and the result
_change_password_or_name(n, name, password, r) ==
    LET nm == IF name = None \/ name = "" THEN n.name ELSE name
        body == IF password # None
                THEN ("xmlns" :> NAMESPACE) @@ ("name" :> nm) @@ ("adminPass" :> password)
                ELSE ("xmlns" :> NAMESPACE) @@ ("name" :> nm)
    IN  [req |-> request(conn, <<"/servers/", n.id>>, NoParams,
                         ET_tostring("server", body), NoHeaders, "PUT", None),
         node |-> IF r.status = 204 /\ password # None
                  THEN [n EXCEPT !.extra.password = password]
                  ELSE n,
         result |-> RetBool(r.status = 204)]

ex_set_password(password, r) ==
    LET c == _change_password_or_name(node, None, password, r)
    IN  /\ Called("ex_set_password", [password |-> password], c.req, r, c.result)
        /\ node' = c.node
        /\ lastPw' = IF r.status = 204 THEN password ELSE lastPw
        /\ UNCHANGED <<node0, conn>>

ex_set_server_name(name, r) ==
    LET c == _change_password_or_name(node, name, None, r)
    IN  /\ Called("ex_set_server_name", [name |-> name], c.req, r, c.result)
        /\ node' = c.node
        /\ UNCHANGED <<node0, lastPw, conn>>

\* The request of an operation that posts an action element for the node
ActionRequest(n, tag, attributes) ==
    request(conn, <<"/servers/", n.id, "/action">>, NoParams,
            ET_tostring(tag, attributes), NoHeaders, "POST", None)

ex_resize(size, r) ==
    /\ Called("ex_resize", [size |-> size],
              ActionRequest(node, "resize", ("xmlns" :> NAMESPACE) @@ ("flavorId" :> size)),
              r, RetBool(r.status = 202))
    /\ UNCHANGED <<node, node0, lastPw, conn>>

\* a confirm-resize that expects 202 like resize does
ex_confirm_resize_202(r) ==
    /\ Called("ex_confirm_resize", <<>>,
              ActionRequest(node, "confirmResize", ("xmlns" :> NAMESPACE)),
              r, RetBool(r.status = 202))
    /\ UNCHANGED <<node, node0, lastPw, conn>>

ex_confirm_resize(r) ==
    /\ Called("ex_confirm_resize", <<>>,
              ActionRequest(node, "confirmResize", ("xmlns" :> NAMESPACE)),
              r, RetBool(r.status = 204))
    /\ UNCHANGED <<node, node0, lastPw, conn>>

ex_revert_resize(r) ==
    /\ Called("ex_revert_resize", <<>>,
              ActionRequest(node, "revertResize", ("xmlns" :> NAMESPACE)),
              r, RetBool(r.status = 204))
    /\ UNCHANGED <<node, node0, lastPw, conn>>

ex_rebuild(image_id, r) ==
    /\ Called("ex_rebuild", [image_id |-> image_id],
              ActionRequest(node, "rebuild", ("xmlns" :> NAMESPACE) @@ ("imageId" :> image_id)),
              r, RetBool(r.status = 202))
    /\ UNCHANGED <<node, node0, lastPw, conn>>

ex_delete_ip_group(group_id, r) ==
    /\ Called("ex_delete_ip_group", [group_id |-> group_id],
              request(conn, <<"/shared_ip_groups/", group_id>>, NoParams, <<>>,
                      NoHeaders, "DELETE", None),
              r, RetBool(r.status = 204))
    /\ UNCHANGED <<node, node0, lastPw, conn>>

ex_share_ip(group_id, ip, configure_node, r) ==
    LET str_configure == IF configure_node THEN "true" ELSE "false"
        elm == ("xmlns" :> NAMESPACE) @@ ("sharedIpGroupId" :> group_id)
               @@ ("configureServer" :> str_configure)
    IN  /\ Called("ex_share_ip",
                  [group_id |-> group_id, ip |-> ip, configure_node |-> configure_node],
                  request(conn, <<"/servers/", node.id, "/ips/public/", ip>>, NoParams,
                          ET_tostring("shareIp", elm), NoHeaders, "PUT", None),
                  r, RetBool(r.status = 202))
        /\ UNCHANGED <<node, node0, lastPw, conn>>

ex_unshare_ip(ip, r) ==
    /\ Called("ex_unshare_ip", [ip |-> ip],
              request(conn, <<"/servers/", node.id, "/ips/public/", ip>>, NoParams, <<>>,
                      NoHeaders, "DELETE", None),
              r, RetBool(r.status = 202))
    /\ UNCHANGED <<node, node0, lastPw, conn>>

\* _reboot_node, with the request that _node_action builds
_reboot_node(name, reboot_type, r) ==
    /\ Called(name, [reboot_type |-> reboot_type],
              ActionRequest(node, "reboot", ("xmlns" :> NAMESPACE) @@ ("type" :> reboot_type)),
              r, RetBool(r.status = 202))
    /\ UNCHANGED <<node, node0, lastPw, conn>>

ex_soft_reboot_node(r) == _reboot_node("ex_soft_reboot_node", "SOFT", r)

ex_hard_reboot_node(r) == _reboot_node("ex_hard_reboot_node", "HARD", r)

reboot_node(r) == _reboot_node("reboot_node", "HARD", r)

destroy_node(r) ==
    /\ Called("destroy_node", <<>>,
              request(conn, <<"/servers/", node.id>>, NoParams, <<>>, NoHeaders,
                      "DELETE", None),
              r, RetBool(r.status = 202))
    /\ UNCHANGED <<node, node0, lastPw, conn>>

\* _metadata_to_xml: no element for an empty dict, else a metadata element
\* with one meta per item; items lists the dict's keys in the order of
\* metadata.items()
_metadata_to_xml(metadata, items) ==
    IF DOMAIN metadata = {} THEN <<>>
    ELSE << Elem("", "metadata", NoAttrs, None,
                 [i \in 1..Len(items) |->
                     Elem("", "meta", ("key" :> items[i]), metadata[items[i]], <<>>)]) >>

\* base64.b64encode on the file contents of the model
b64encode(v) == CASE v = "hello" -> "aGVsbG8=" [] OTHER -> ""

\* _files_to_xml: no element for an empty dict, else a personality element
_files_to_xml(files, items) ==
    IF DOMAIN files = {} THEN <<>>
    ELSE << Elem("", "personality", NoAttrs, None,
                 [i \in 1..Len(items) |->
                     Elem("", "file", ("path" :> items[i]), b64encode(files[items[i]]),
                          <<>>)]) >>

\* "if metadata_elm:" on what the two operators above return: None is false,
\* and so is an element without children
Truthy(elm) == elm # <<>> /\ elm[1].children # <<>>

\* ET.tostring(server_elm) of create_node
CreatePayload(name, image_id, size_id, shared_ip_group_id, metadata, mitems, files, fitems) ==
    LET attributes == ("xmlns" :> NAMESPACE) @@ ("name" :> name) @@ ("imageId" :> image_id)
                      @@ ("flavorId" :> size_id)
                      @@ (IF shared_ip_group_id = None THEN NoAttrs
                          ELSE ("sharedIpGroupId" :> shared_ip_group_id))
        metadata_elm == _metadata_to_xml(metadata, mitems)
        files_elm == _files_to_xml(files, fitems)
    IN  Serialise(Elem("", "server", attributes, None,
                       (IF Truthy(metadata_elm) THEN metadata_elm ELSE <<>>)
                       \o (IF Truthy(files_elm) THEN files_elm ELSE <<>>)))

NodeOf(object) ==
    IF object.kind = "element" THEN RetNode(_to_node(conn, object.el))
    ELSE Unmappable(object)

\* a get-node-details without the 404 case
ex_get_node_details_no404(nonce, r) ==
    /\ Called("ex_get_node_details", <<>>,
              request(conn, <<"/servers/", node.id>>, NoParams, <<>>, NoHeaders,
                      "GET", nonce),
              r, NodeOf(ResponseObject(conn.variant, r)))
    /\ UNCHANGED <<node, node0, lastPw, conn>>

ex_get_node_details(nonce, r) ==
    /\ Called("ex_get_node_details", <<>>,
              request(conn, <<"/servers/", node.id>>, NoParams, <<>>, NoHeaders,
                      "GET", nonce),
              r,
              IF r.status = 404 THEN RetNone
              ELSE NodeOf(ResponseObject(conn.variant, r)))
    /\ UNCHANGED <<node, node0, lastPw, conn>>

ImageOf(object) ==
    IF object.kind = "element" THEN RetImage(_to_image(object.el))
    ELSE Unmappable(object)

ex_save_image(name, r) ==
    LET image_elm == ("xmlns" :> NAMESPACE) @@ ("name" :> name) @@ ("serverId" :> node.id)
    IN  /\ Called("ex_save_image", [name |-> name],
                  request(conn, <<"/images">>, NoParams, ET_tostring("image", image_elm),
                          NoHeaders, "POST", None),
                  r, ImageOf(ResponseObject(conn.variant, r)))
        /\ UNCHANGED <<node, node0, lastPw, conn>>

ImagesOf(object) ==
    IF object.kind = "element" THEN RetImages(_to_images(object.el))
    ELSE Unmappable(object)

list_images(nonce, r) ==
    /\ Called("list_images", <<>>,
              request(conn, <<"/images/detail">>, NoParams, <<>>, NoHeaders, "GET", nonce),
              r, ImagesOf(ResponseObject(conn.variant, r)))
    /\ UNCHANGED <<node, node0, lastPw, conn>>

LimitsOf(object) ==
    IF object.kind = "element"
    THEN LET limits == object.el
             rates == _findall(limits, <<"rate", "limit">>)
         IN  RetLimits([i \in 1..Len(rates) |-> _to_rate(rates[i])],
                       AbsoluteFrom(EmptyDict, _findall(limits, <<"absolute", "limit">>)))
    ELSE Unmappable(object)

ex_limits(nonce, r) ==
    /\ Called("ex_limits", <<>>,
              request(conn, <<"/limits">>, NoParams, <<>>, NoHeaders, "GET", nonce),
              r, LimitsOf(ResponseObject(conn.variant, r)))
    /\ UNCHANGED <<node, node0, lastPw, conn>>

\* The codec on its own: the response class decodes the body of a response
decode_body(r) ==
    /\ Called("parse_body", <<>>, req, r, responseCls_parse_body(conn.variant, r))
    /\ UNCHANGED <<node, node0, lastPw, conn>>

\* The codec on its own: the error message of a response that is no success
decode_error(r) ==
    /\ ~success(r)
    /\ Called("parse_error", <<>>, req, r, parse_error(r))
    /\ UNCHANGED <<node, node0, lastPw, conn>>

----------------------------------------------------------------------------
(* What the provider may answer: statuses, headers and bodies *)

Statuses == {200, 202, 204, 404, 500}

Reason(status) ==
    CASE status = 200 -> "OK"
      [] status = 202 -> "Accepted"
      [] status = 204 -> "No Content"
      [] status = 404 -> "Not Found"
      [] OTHER -> "Internal Server Error"

Response(status, headers, body) ==
    [status |-> status, error |-> Reason(status), headers |-> headers, body |-> body]

XmlHeaders == ("content-type" :> <<"application/xml">>)

HeaderChoices ==
    {NoHeaders,
     XmlHeaders,
     ("Content-Type" :> <<"application/xml">>),
     ("content-type" :> <<"Application/XML", "; charset=UTF-8">>),
     ("content-type" :> <<"application/json">>)}

\* an attribute that is present only when it has a value
Opt(k, v) == IF v = None THEN NoAttrs ELSE (k :> v)

Leaf(tag, attrs) == Elem(NAMESPACE, tag, attrs, None, <<>>)

Addresses ==
    Elem(NAMESPACE, "addresses", NoAttrs, None,
         << Elem(NAMESPACE, "public", NoAttrs, None,
                 <<Leaf("ip", ("addr" :> "67.23.10.132")), Leaf("ip", ("addr" :> "67.23.10.131"))>>),
            Elem(NAMESPACE, "private", NoAttrs, None,
                 <<Leaf("ip", ("addr" :> "10.176.42.16"))>>) >>)

Metadata ==
    Elem(NAMESPACE, "metadata", NoAttrs, None,
         << Elem(NAMESPACE, "meta", ("key" :> "env"), "prod", <<>>),
            Elem(NAMESPACE, "meta", ("key" :> "tier"), "1", <<>>) >>)

ServerEl(status, adminPass) ==
    Elem(NAMESPACE, "server",
         ("id" :> "1234") @@ ("name" :> "srv") @@ ("hostId" :> "h1")
         @@ ("imageId" :> "11") @@ ("flavorId" :> "1")
         @@ Opt("status", status) @@ Opt("adminPass", adminPass),
         None, <<Metadata, Addresses>>)

\* the status attribute of a server element: every key of the table, strings
\* that are no key, and no attribute at all
StatusInputs == DOMAIN NODE_STATE_MAP \cup {"BOGUS", "active", "", None}

ImageEl(ns, id, status) ==
    Elem(ns, "image", ("id" :> id) @@ ("name" :> "img") @@ Opt("status", status), None, <<>>)

ImageEls ==
    {ImageEl(NAMESPACE, "1", "ACTIVE"), ImageEl(NAMESPACE, "2", "ACTIVE"),
     ImageEl(NAMESPACE, "3", "SAVING"), ImageEl(NAMESPACE, "4", "active"),
     ImageEl(NAMESPACE, "5", None), ImageEl(OtherNs, "6", "ACTIVE")}

LimitEl(name, value) == Leaf("limit", Opt("name", name) @@ Opt("value", value))

LimitEls ==
    {LimitEl(n, v) : n \in {"RAM", "DISK"}, v \in {"10", "20"}}
    \cup {LimitEl("RAM", None), LimitEl(None, "10")}

SeqsUpTo(S, n) == UNION {[1..k -> S] : k \in 0..n}

ImagesEl(images) == Elem(NAMESPACE, "images", NoAttrs, None, images)

LimitsEl(absolute) ==
    Elem(NAMESPACE, "limits", NoAttrs, None,
         << Elem(NAMESPACE, "rate", NoAttrs, None,
                 <<Leaf("limit", ("verb" :> "POST") @@ ("value" :> "10"))>>),
            Elem(NAMESPACE, "absolute", NoAttrs, None, absolute) >>)

FaultEl ==
    Elem(NAMESPACE, "cloudServersFault", ("code" :> "500"), None,
         << Elem(NAMESPACE, "message", NoAttrs, "boom", <<>>),
            Elem(NAMESPACE, "details", NoAttrs, "", <<>>),
            Elem(NAMESPACE, "more", NoAttrs, "info", <<>>) >>)

\* a body cut short, and a body that is no XML at all
Truncated(body) == SubSeq(body, 1, Len(body) - 1)
Junk == <<Text("not xml")>>

\* bodies an operation on a node may get
ClientBodies ==
    {<<>>, Junk, Serialise(ServerEl("ACTIVE", None)), Serialise(ImageEl(NAMESPACE, "7", "SAVING")),
     Serialise(FaultEl)}

ClientResponses == {Response(s, XmlHeaders, b) : s \in Statuses, b \in ClientBodies}

\* responses to an operation that looks at the status alone
StatusResponses == {Response(s, XmlHeaders, b) : s \in Statuses, b \in {<<>>, Junk}}

MapBodies ==
    {<<>>, Junk, Serialise(FaultEl), Truncated(Serialise(FaultEl)),
     Serialise(FaultEl) \o Serialise(FaultEl),
     Serialise(ImageEl(NAMESPACE, "7", "SAVING")), Serialise(ImageEl(NAMESPACE, "7", "ACTIVE")),
     Truncated(Serialise(ServerEl("ACTIVE", None)))}
    \cup {Serialise(ServerEl(s, p)) : s \in StatusInputs, p \in {None, "p0"}}

MapResponses ==
    {Response(s, h, b) : s \in Statuses, h \in HeaderChoices, b \in MapBodies}
    \cup {Response(200, XmlHeaders, Serialise(ImagesEl(is))) : is \in SeqsUpTo(ImageEls, MaxImages)}
    \cup {Response(200, XmlHeaders, Serialise(LimitsEl(ls))) : ls \in SeqsUpTo(LimitEls, MaxLimits)}

Passwords == {"", "pw1"}
Names == {"", "web1"}
Nonces == {"a1b2", "c3d4"}

Conns ==
    {[variant |-> v, server_url |-> u, host |-> "servers.api.rackspacecloud.com",
      request_path |-> "/v1.0/slug"] : v \in {"rackspace", "openstack"},
                                        u \in {"", "/v1.0/slug"}}

----------------------------------------------------------------------------
(* The client holding a Node: the state right after create_node returned it, *)
(* then any operations on it                                                 *)

\* the create_node call that made the Node of the initial state
CreateArgs ==
    [name |-> "srv", ex_shared_ip_group_id |-> None,
     ex_metadata |-> ("env" :> "prod") @@ ("tier" :> "1"), ex_files |-> EmptyDict]

CreateRequest ==
    CreatePayload("srv", "11", "1", None, CreateArgs.ex_metadata, <<"env", "tier">>,
                  EmptyDict, <<>>)

Created(c, el) ==
    /\ conn = c
    /\ node = _to_node(c, el)
    /\ node0 = node
    /\ lastPw = node.extra.password
    /\ op = "create_node"
    /\ args = CreateArgs
    /\ req = request(c, <<"/servers">>, NoParams, CreateRequest, NoHeaders, "POST", None)
    /\ resp = Response(202, XmlHeaders, Serialise(el))
    /\ result = RetNode(node)

Init == \E c \in Conns : Created(c, ServerEl("BUILD", "p0"))

Next ==
    \/ \E p \in Passwords, r \in StatusResponses : ex_set_password(p, r)
    \/ \E n \in Names, r \in StatusResponses : ex_set_server_name(n, r)
    \/ \E r \in StatusResponses : ex_resize("2", r)
    \/ \E r \in StatusResponses : ex_confirm_resize(r)
    \/ \E r \in StatusResponses : ex_revert_resize(r)
    \/ \E r \in StatusResponses : ex_rebuild("11", r)
    \/ \E r \in StatusResponses : ex_delete_ip_group("g1", r)
    \/ \E b \in BOOLEAN, r \in StatusResponses : ex_share_ip("g1", "67.23.10.132", b, r)
    \/ \E r \in StatusResponses : ex_unshare_ip("67.23.10.132", r)
    \/ \E r \in StatusResponses : ex_soft_reboot_node(r)
    \/ \E r \in StatusResponses : ex_hard_reboot_node(r)
    \/ \E r \in StatusResponses : reboot_node(r)
    \/ \E r \in StatusResponses : destroy_node(r)
    \/ \E n \in Nonces, r \in ClientResponses : ex_get_node_details(n, r)
    \/ \E r \in ClientResponses : ex_save_image("backup", r)

Spec == Init /\ [][Next]_vars

----------------------------------------------------------------------------
(* create_node with metadata and files: the provider reads the payload and   *)
(* answers with the server it made, metadata included                        *)

\* The provider's XML reader on a request body: an xmlns attribute names the
\* namespace of its element and of the elements below it
RECURSIVE ResolveFrom(_, _, _)
ResolveFrom(toks, i, nss) ==
    IF i > Len(toks) THEN <<>>
    ELSE LET tk == toks[i]
             n == Len(nss)
         IN  CASE tk.t = "open" ->
                    LET ns == IF "xmlns" \in DOMAIN tk.attrs THEN tk.attrs["xmlns"]
                              ELSE IF n = 0 THEN tk.ns ELSE nss[n]
                        attrs == [a \in DOMAIN tk.attrs \ {"xmlns"} |-> tk.attrs[a]]
                    IN  <<Open(ns, tk.tag, attrs)>> \o ResolveFrom(toks, i + 1, Append(nss, ns))
               [] tk.t = "close" ->
                    IF n = 0 THEN <<tk>> \o ResolveFrom(toks, i + 1, nss)
                    ELSE <<Close(nss[n], tk.tag)>>
                         \o ResolveFrom(toks, i + 1, SubSeq(nss, 1, n - 1))
               [] OTHER -> <<tk>> \o ResolveFrom(toks, i + 1, nss)

ResolveNs(body) == ResolveFrom(body, 1, <<>>)

\* the server element the provider answers a create request with
ProviderServer(data) ==
    LET server == ET_XML(ResolveNs(data)).root
    IN  Elem(NAMESPACE, "server",
             ("id" :> "1234") @@ ("name" :> Get(server, "name")) @@ ("hostId" :> "h1")
             @@ ("imageId" :> Get(server, "imageId")) @@ ("flavorId" :> Get(server, "flavorId"))
             @@ ("status" :> "BUILD") @@ ("adminPass" :> "p0"),
             None,
             SelectSeq(server.children, LAMBDA c : c.tag = "metadata") \o <<Addresses>>)

\* the provider's answer to a create request: the server, or a fault
ProviderAnswer(status, data) ==
    IF status = 202 THEN Response(202, XmlHeaders, Serialise(ProviderServer(data)))
    ELSE Response(status, XmlHeaders, Serialise(FaultEl))

\* create_node: the Node it returns is a new object; the Node the caller
\* already holds is not touched.  status is what the provider answers with.
create_node(name, image_id, size_id, shared_ip_group_id, metadata, mitems, files, fitems, status) ==
    LET data == CreatePayload(name, image_id, size_id, shared_ip_group_id,
                              metadata, mitems, files, fitems)
        r == ProviderAnswer(status, data)
    IN  /\ Called("create_node",
                  [name |-> name, ex_shared_ip_group_id |-> shared_ip_group_id,
                   ex_metadata |-> metadata, ex_files |-> files],
                  request(conn, <<"/servers">>, NoParams, data, NoHeaders, "POST", None),
                  r, NodeOf(ResponseObject(conn.variant, r)))
        /\ UNCHANGED <<node, node0, lastPw, conn>>

MetaKeys == {"env", "tier"}
MetaValues == {"prod", ""}

\* dicts of string keys and string values
Dicts(keys, values) == UNION {[ks -> values] : ks \in SUBSET keys}

\* the orders in which the items of a dict may come
ItemOrders(d) ==
    {s \in [1..Cardinality(DOMAIN d) -> DOMAIN d] :
        \A i, j \in 1..Cardinality(DOMAIN d) : i # j => s[i] # s[j]}

\* a dict together with an order of its items
WithOrders(dicts) == UNION {{[dict |-> d, items |-> s] : s \in ItemOrders(d)} : d \in dicts}

MetadataInputs == WithOrders(Dicts(MetaKeys, MetaValues))
FileInputs == WithOrders({EmptyDict, ("/etc/motd" :> "hello")})

NextCreate ==
    \E m \in MetadataInputs, f \in FileInputs, g \in {None, "g1"}, status \in {202, 500} :
        create_node("srv", "11", "1", g, m.dict, m.items, f.dict, f.items, status)

SpecCreate == Init /\ [][NextCreate]_vars

----------------------------------------------------------------------------
(* The codec and the mappers on every response: a response is drawn, and    *)
(* one operation decodes and maps it                                         *)

\* the connection has authenticated: server_url is set
InitMap ==
    \E c \in {x \in Conns : x.server_url # ""}, r \in MapResponses :
        /\ conn = c
        /\ node = _to_node(c, ServerEl("ACTIVE", None))
        /\ node0 = node
        /\ lastPw = node.extra.password
        /\ op = "input"
        /\ args = <<>>
        /\ req = [action |-> <<>>, params |-> NoParams, data |-> <<>>, method |-> "",
                  headers |-> NoHeaders]
        /\ resp = r
        /\ result = [kind |-> "pending"]

\* the document a body holds, by the tag it starts with ("" when it starts with none)
Document(body) == IF body # <<>> /\ body[1].t = "open" THEN body[1].tag ELSE ""

\* the provider answers an operation with the document of that operation, with
\* a fault, or with a body that is empty or no XML, never with the document
\* of another operation
Answers(r, tag) == Document(r.body) \in {tag, "cloudServersFault", ""}

NextMap ==
    \/ op = "input" /\ Answers(resp, "images") /\ \E n \in Nonces : list_images(n, resp)
    \/ op = "input" /\ Answers(resp, "limits") /\ \E n \in Nonces : ex_limits(n, resp)
    \/ op = "input" /\ Answers(resp, "server")
                    /\ \E n \in Nonces : ex_get_node_details(n, resp)
    \/ op = "input" /\ Answers(resp, "image") /\ ex_save_image("backup", resp)
    \/ op = "input" /\ decode_body(resp)
    \/ op = "input" /\ decode_error(resp)

SpecMap == InitMap /\ [][NextMap]_vars

----------------------------------------------------------------------------
(* Properties *)

\* the element tree of the response at hand, when its body is well-formed
Root == ET_XML(resp.body).root

\* the operation at hand got an element tree to map
Mapped == ResponseObject(conn.variant, resp).kind = "element"

\* the lifecycle state the table of the specification gives a status
TableState(status) ==
    CASE status = "BUILD" -> "PENDING"
      [] status = "REBUILD" -> "PENDING"
      [] status = "ACTIVE" -> "RUNNING"
      [] status = "SUSPENDED" -> "TERMINATED"
      [] status = "QUEUE_RESIZE" -> "PENDING"
      [] status = "PREP_RESIZE" -> "PENDING"
      [] status = "VERIFY_RESIZE" -> "RUNNING"
      [] status = "PASSWORD" -> "PENDING"
      [] status = "RESCUE" -> "PENDING"
      [] status = "REBOOT" -> "REBOOTING"
      [] status = "HARD_REBOOT" -> "REBOOTING"
      [] status = "SHARE_IP" -> "PENDING"
      [] status = "SHARE_IP_NO_CONFIG" -> "PENDING"
      [] status = "DELETE_IP" -> "PENDING"
      [] OTHER -> "UNKNOWN"

\* C1: whatever the status attribute of a server element (a table key, any
\* other string, or no attribute), mapping it yields a Node, never an error,
\* and its state is the one the table gives, UNKNOWN when the table has none.
C1_StateNormalization ==
    (op = "ex_get_node_details" /\ resp.status # 404 /\ Mapped)
        => /\ result.kind = "Node"
           /\ result.node.state =
                 IF "status" \in DOMAIN Root.attrs THEN TableState(Root.attrs["status"])
                 ELSE "UNKNOWN"

\* C1 witness: a status that is no key of the table was mapped to UNKNOWN
C1_Witness ==
    /\ op = "ex_get_node_details" /\ resp.status # 404 /\ Mapped
    /\ Get(Root, "status") = "BOGUS"
    /\ result.kind = "Node" /\ result.node.state = "UNKNOWN"

\* C2: set-password answered 204 returns true and leaves the new password in
\* the Node passed in; answered anything else it returns false and leaves the
\* Node as it was.
C2_SetPassword ==
    [][op' = "ex_set_password" =>
          IF resp'.status = 204
          THEN result' = RetBool(TRUE) /\ node'.extra.password = args'.password
          ELSE result' = RetBool(FALSE) /\ node' = node]_vars

\* C2 witness: a set-password answered 204 changed the Node's password
C2_Witness ==
    /\ op = "ex_set_password" /\ resp.status = 204
    /\ result = RetBool(TRUE)
    /\ node.extra.password = args.password
    /\ node.extra.password # node0.extra.password

\* the image elements of an image list whose status attribute is ACTIVE
ActiveImageEls ==
    SelectSeq(Root.children,
              LAMBDA c : /\ c.ns = NAMESPACE /\ c.tag = "image"
                         /\ "status" \in DOMAIN c.attrs
                         /\ c.attrs["status"] = "ACTIVE")

\* C3: list-images returns one image per image element whose status is
\* ACTIVE, in the order of the elements, and no other image.
C3_ListImages ==
    (op = "list_images" /\ Mapped)
        => /\ result.kind = "images"
           /\ Len(result.images) = Len(ActiveImageEls)
           /\ \A i \in 1..Len(result.images) :
                 /\ result.images[i].id = ActiveImageEls[i].attrs["id"]
                 /\ result.images[i].extra.status = "ACTIVE"

\* C3 witness: elements with statuses ACTIVE, SAVING, ACTIVE gave two images
C3_Witness ==
    /\ op = "list_images" /\ Mapped
    /\ Len(Root.children) = 3
    /\ [i \in 1..3 |-> Get(Root.children[i], "status")] = <<"ACTIVE", "SAVING", "ACTIVE">>
    /\ Root.children[1] # Root.children[3]
    /\ result.kind = "images" /\ Len(result.images) = 2

\* the images an operation handed to its caller
Surfaced ==
    IF result.kind = "images" THEN {result.images[i] : i \in 1..Len(result.images)}
    ELSE IF result.kind = "NodeImage" THEN {result.image}
    ELSE {}

ExpectedStatus ==
    [o \in {"ex_resize", "ex_rebuild", "ex_share_ip", "ex_unshare_ip",
            "ex_soft_reboot_node", "ex_hard_reboot_node", "reboot_node", "destroy_node",
            "ex_confirm_resize", "ex_revert_resize", "ex_set_password",
            "ex_set_server_name", "ex_delete_ip_group"} |->
        IF o \in {"ex_confirm_resize", "ex_revert_resize", "ex_set_password",
                  "ex_set_server_name", "ex_delete_ip_group"}
        THEN 204 ELSE 202]

\* C5: a boolean-result operation returns true exactly when the response has
\* the status it expects (202 or 204), and false, never an error, otherwise.
C5_StatusContract ==
    op \in DOMAIN ExpectedStatus
        => /\ result.kind = "bool"
           /\ result.val = (resp.status = ExpectedStatus[op])

\* C5 witness: confirm-resize answered 202, a success that is not its 204,
\* returned false
C5_Witness ==
    /\ op = "ex_confirm_resize" /\ resp.status = 202
    /\ result = RetBool(FALSE)

\* C6: get-node-details answered 404 returns None, whatever the body (the
\* body is not decoded or mapped); answered anything else with a body that
\* decodes to an element, it returns the Node of that element.
C6_NodeDetails ==
    op = "ex_get_node_details"
        => /\ resp.status = 404 => result = RetNone
           /\ (resp.status # 404 /\ Mapped)
                 => /\ result.kind = "Node"
                    /\ result.node.id = Get(Root, "id")
                    /\ result.node.name = Get(Root, "name")
                    /\ result.node.extra.password = Get(Root, "adminPass")

\* C6 witness: a 404 with a body that is no XML gave None
C6_Witness ==
    /\ op = "ex_get_node_details" /\ resp.status = 404
    /\ resp.body # <<>> /\ ~ET_XML(resp.body).ok
    /\ result = RetNone

\* the response's content type says XML: a content-type header, its name in
\* any case, whose value holds application/xml in any case
IndicatesXml ==
    \E k \in DOMAIN resp.headers :
        /\ Lower(k) = "content-type"
        /\ \E i \in 1..Len(resp.headers[k]) : Lower(resp.headers[k][i]) = "application/xml"

\* C7: decoding a body that is not empty and not well-formed XML, where XML
\* is expected (the default codec; the content-type-checking codec when the
\* content type says XML), raises MalformedResponseError carrying that body.
C7_Malformed ==
    (/\ op = "parse_body"
     /\ resp.body # <<>> /\ ~ET_XML(resp.body).ok
     /\ (conn.variant = "rackspace" \/ IndicatesXml))
        => /\ result.kind = "raise"
           /\ result.exc = "MalformedResponseError"
           /\ result.body = resp.body

\* C8: when the body of a response that is no success is not well-formed
\* XML, the error message is still built: status, reason and the raw body.
C8_RawErrorBody ==
    (op = "parse_error" /\ resp.body # <<>> /\ ~ET_XML(resp.body).ok)
        => result = RetMessage(resp.status, resp.error,
                               [kind |-> "raw", body |-> resp.body])

\* C9: whatever operations ran on the Node with whatever answers, the Node
\* is as the driver created it except for its password, which is that of the
\* latest set-password answered 204 (the created one when there was none).
C9_NodeFrame ==
    node = [node0 EXCEPT !.extra.password = lastPw]

\* C9 witness: after a set-password answered 204, a set-name answered 204
\* left the Node with its name and the new password
C9_Witness ==
    /\ op = "ex_set_server_name" /\ args.name = "web1" /\ result = RetBool(TRUE)
    /\ node.name = node0.name
    /\ node.extra.password = "pw1" /\ node0.extra.password = "p0"

\* the limit elements of the absolute section of a limits response
AbsoluteEls ==
    Flatten([i \in 1..Len(Root.children) |->
                IF Root.children[i].ns = NAMESPACE /\ Root.children[i].tag = "absolute"
                THEN SelectSeq(Root.children[i].children,
                               LAMBDA c : c.ns = NAMESPACE /\ c.tag = "limit")
                ELSE <<>>])

\* C10: the absolute map of get-limits has exactly the names of the absolute
\* limit elements, each with the value of the last element of that name.
C10_AbsoluteLimits ==
    (op = "ex_limits" /\ Mapped)
        => /\ result.kind = "limits"
           /\ DOMAIN result.absolute = {Get(AbsoluteEls[i], "name") : i \in 1..Len(AbsoluteEls)}
           /\ \A i \in 1..Len(AbsoluteEls) :
                 (\A j \in (i + 1)..Len(AbsoluteEls) :
                      Get(AbsoluteEls[j], "name") # Get(AbsoluteEls[i], "name"))
                 => result.absolute[Get(AbsoluteEls[i], "name")] = Get(AbsoluteEls[i], "value")

\* C10 witness: RAM=10 then RAM=20 gave RAM=20
C10_Witness ==
    /\ op = "ex_limits" /\ Mapped
    /\ Len(AbsoluteEls) = 2
    /\ AbsoluteEls[1].attrs = ("name" :> "RAM") @@ ("value" :> "10")
    /\ AbsoluteEls[2].attrs = ("name" :> "RAM") @@ ("value" :> "20")
    /\ result.kind = "limits" /\ result.absolute = ("RAM" :> "20")

\* C11: the metadata dict given to create_node, written as the metadata
\* element of the payload and read back by the node mapper from the server
\* the provider answers with, is the dict of the Node returned.
C11_MetadataRoundTrip ==
    (op = "create_node" /\ result.kind = "Node")
        => result.node.extra.metadata = args.ex_metadata

\* C12: the content-type-checking codec, on a body that is not empty, parses
\* the body as XML exactly when the response has a content-type header (name
\* and value in any case) whose value holds application/xml; otherwise it
\* returns the raw body unchanged; the header check raises nothing.
C12_ContentTypeCheck ==
    (op = "parse_body" /\ conn.variant = "openstack" /\ resp.body # <<>>)
        => IF IndicatesXml
           THEN result = (IF ET_XML(resp.body).ok THEN RetElem(Root)
                          ELSE RaiseMalformed(resp.body))
           ELSE result = RetRaw(resp.body)

\* C13: every GET request handed to the transport carries the cache-busting
\* query parameter with the nonce drawn for it, also when the caller gave no
\* query parameters; a request with another method goes out without it.
C13_CacheBusting ==
    /\ req.method = "GET"
           => /\ "cache-busting" \in DOMAIN req.params
              /\ req.params["cache-busting"] \in Nonces
    /\ req.method # "GET" => "cache-busting" \notin DOMAIN req.params

C13_Witness ==
    /\ op = "ex_get_node_details"
    /\ req.method = "GET"
    /\ DOMAIN req.params = {"cache-busting"}
    /\ req.params["cache-busting"] \in Nonces

====
